---------------------------- MODULE Spec2Model ----------------------------
(***************************************************************************)
(* Model of assets/js/script.js: the mobile menu, the destination modal,   *)
(* the contact form, the two card grids, the image URL helper, throttle(), *)
(* the navbar with its links, the fade-in elements and bootstrap().        *)
(*                                                                         *)
(* Every function of the script is an operator from the state it touches   *)
(* to the state it leaves; every browser event is an action that runs the  *)
(* listeners registered for it, in registration and propagation order.     *)
(* Pending setTimeout callbacks are kept in queues: callbacks scheduled    *)
(* with the same delay fire in the order they were scheduled.              *)
(***************************************************************************)
EXTENDS Integers, Sequences, FiniteSets, TLC

VARIABLES
    boot,       \* position of bootstrap(): "pending", "awaitDest", "awaitDestJson", "done"
    menu,       \* mobile menu panel, toggle control, icon and pending 300 ms timers
    resizeThrottle, \* inThrottle of the throttled resize listener
    modal,      \* #destination-modal, body scroll lock and pending 400 ms timers
    destGrid,   \* #destinations-grid: its content
    destData,   \* history: the array the destinations grid was rendered from
    brochPc,    \* position of loadBrochures(): "idle", "awaitFetch", "awaitJson", "done"
    brochGrid,  \* #brochures-grid: its content
    brochData,  \* history: the array the brochures grid was rendered from
    form,       \* #contact-form, its submit control, POSTs in flight, 5 s timers
    last,       \* history: the event handled last
    lastCard,   \* history: index of the card activated last, 0 if none
    urlIn,      \* image URL helper: the url argument
    urlQ,       \* image URL helper: the querystring argument
    urlOut,     \* image URL helper: the result, once applied
    thr,        \* a function wrapped by throttle(): flag, timer, clock, history of calls
    chrome,     \* scroll offset, navbar state, active links, scroll throttle, last anchor click
    reveal,     \* fade-in elements: visible, observed; history of reported intersections
    bootLog     \* history: the steps bootstrap() has taken, in order

vars == <<boot, menu, resizeThrottle, modal, destGrid, destData, brochPc,
          brochGrid, brochData, form, last, lastCard, urlIn, urlQ, urlOut,
          thr, chrome, reveal, bootLog>>

\* ------------------------------------------------------------------ bounds

\* most hide timers of the menu pending at once
MaxMenuTimers == 3

\* most hide timers of the modal pending at once
MaxModalTimers == 2

\* most items of a fetched JSON array
MaxItems == 2

\* most submit events of one page session
MaxSubmits == 2

\* most tokens of an image URL given to the URL helper
MaxUrlLen == 3

\* most calls of a throttled function
MaxCalls == 4

\* the clock of the throttled function stops here
MaxTime == 6

\* largest interval given to throttle()
MaxLimit == 2

\* number of fade-in elements of the page
MaxFade == 3

\* ------------------------------------------------------------- mobile menu

\* the page as authored: panel hidden, toggle inactive, aria-expanded "false"
MenuInit ==
    [hidden |-> TRUE, open |-> FALSE, active |-> FALSE, aria |-> "false",
     icon |-> "hamburger", timers |-> <<>>]

\* updateMenuIcon(isOpen): the path of #menu-icon
updateMenuIcon(m, isOpen) ==
    [m EXCEPT !.icon = IF isOpen THEN "x" ELSE "hamburger"]

\* openMobileMenu() without mobileMenu.classList.remove('hidden')
openMobileMenuKeepsHidden(m) ==
    updateMenuIcon(
        [m EXCEPT !.open = TRUE, !.active = TRUE, !.aria = "true",
                  !.timers = [i \in DOMAIN m.timers |-> [reopened |-> TRUE]]],
        TRUE)

\* openMobileMenu(). The reopened flag of a pending timer is history: it
\* records that the menu was opened after the close() that scheduled it.
openMobileMenu(m) ==
    updateMenuIcon(
        [m EXCEPT !.hidden = FALSE, !.open = TRUE, !.active = TRUE,
                  !.aria = "true",
                  !.timers = [i \in DOMAIN m.timers |-> [reopened |-> TRUE]]],
        TRUE)

\* closeMobileMenu() without its setTimeout
closeMobileMenuNoTimer(m) ==
    updateMenuIcon(
        [m EXCEPT !.open = FALSE, !.active = FALSE, !.aria = "false"],
        FALSE)

\* closeMobileMenu() without menuToggle.classList.remove('active')
closeMobileMenuKeepsActive(m) ==
    LET c == updateMenuIcon([m EXCEPT !.open = FALSE, !.aria = "false"], FALSE)
    IN [c EXCEPT !.timers = Append(c.timers, [reopened |-> FALSE])]

\* closeMobileMenu(): clears the three surfaces, schedules the hide timer
closeMobileMenu(m) ==
    LET c == updateMenuIcon(
                 [m EXCEPT !.open = FALSE, !.active = FALSE, !.aria = "false"],
                 FALSE)
    IN [c EXCEPT !.timers = Append(c.timers, [reopened |-> FALSE])]

\* toggleMobileMenu()
toggleMobileMenu(m) ==
    IF m.open THEN closeMobileMenu(m) ELSE openMobileMenu(m)

\* the timer callback without its check of the 'open' class
menuHideTimerUnguarded(m) ==
    [m EXCEPT !.timers = Tail(m.timers), !.hidden = TRUE]

\* the callback closeMobileMenu() passes to setTimeout, at fire time
menuHideTimer(m) ==
    LET rest == [m EXCEPT !.timers = Tail(m.timers)]
    IN IF ~m.open THEN [rest EXCEPT !.hidden = TRUE] ELSE rest

\* the document click listener of initEventListeners
documentClick(m, inMenu, inToggle) ==
    IF m.open /\ ~inMenu /\ ~inToggle THEN closeMobileMenu(m) ELSE m

\* handleSmoothScroll(e), as far as it touches the menu: href is "#id"
\* (fragment) or not, and the id resolves to an element or not
handleSmoothScroll(m, fragment, resolves) ==
    IF fragment /\ resolves /\ m.open THEN closeMobileMenu(m) ELSE m

\* the document keydown listener without its test of e.key
menuKeydownAnyKey(m, key) ==
    IF m.open THEN closeMobileMenu(m) ELSE m

\* the document keydown listener of initEventListeners
menuKeydown(m, key) ==
    IF key = "Escape" /\ m.open THEN closeMobileMenu(m) ELSE m

\* the body of the throttled resize listener
resizeHandler(m, width) ==
    IF width >= 768 /\ m.open THEN closeMobileMenu(m) ELSE m

\* ------------------------------------------------- JSON values and strings

\* A string is a sequence of tokens (characters, or for URLs the pieces of
\* the URL). A JSON field value is absent (undefined), null or a string.
Absent == [t |-> "absent", s |-> <<>>]

Null == [t |-> "null", s |-> <<>>]

Str(s) == [t |-> "str", s |-> s]

QUOT == "\""

\* JavaScript's v || '' for a field value
OrEmpty(v) == IF v.t = "str" /\ v.s # <<>> THEN v ELSE Str(<<>>)

\* JavaScript's `${v}` in a template literal
ToText(v) ==
    CASE v.t = "absent" -> <<"u", "n", "d", "e", "f", "i", "n", "e", "d">>
      [] v.t = "null" -> <<"n", "u", "l", "l">>
      [] OTHER -> v.s

\* index of the first occurrence of token c in s, Len(s) + 1 if none
FirstIndex(s, c) ==
    IF \E i \in 1..Len(s) : s[i] = c
    THEN CHOOSE i \in 1..Len(s) : s[i] = c /\ \A j \in 1..(i - 1) : s[j] # c
    ELSE Len(s) + 1

\* the HTML parser reading a double-quoted attribute value out of markup:
\* the value ends at the first double quote
AttrValue(s) == SubSeq(s, 1, FirstIndex(s, QUOT) - 1)

\* ------------------------------------------------------- image URL helper

UnsplashHost == "images.unsplash.com"

\* url.includes('images.unsplash.com')
includesUnsplash(s) == \E i \in 1..Len(s) : s[i] = UnsplashHost

\* unsplashUrl(url, querystring): url is a field value, querystring a string
unsplashUrl(url, querystring) ==
    IF url.t # "str" \/ url.s = <<>> \/ ~includesUnsplash(url.s)
    THEN url
    ELSE Str(SubSeq(url.s, 1, FirstIndex(url.s, "?") - 1) \o <<"?">> \o querystring)

\* the directives of loadDestinations and loadBrochures
DetailQuery == <<"auto=format&fit=crop&w=1200&q=80">>

ThumbQuery == <<"auto=format&fit=crop&w=600&q=70">>

BrochureQuery == <<"auto=format&fit=crop&w=800&q=70">>

\* ------------------------------------------------------ fetched JSON data

DestFields ==
    {"image", "region", "name", "tagline", "description", "bestTime",
     "highlights", "experiences"}

\* an item of a parsed array: an object with its fields, or null
Obj(f) == [kind |-> "obj", f |-> f]

NullItem == [kind |-> "null", f |-> [k \in {} |-> Absent]]

\* destination records the data source may hold
DestFull ==
    Obj([image |-> Str(<<UnsplashHost, "/a.jpg", "?", "w=10">>),
         region |-> Str(<<"r">>), name |-> Str(<<"n">>),
         tagline |-> Str(<<"t">>), description |-> Str(<<"d">>),
         bestTime |-> Str(<<"b">>), highlights |-> Str(<<"h">>),
         experiences |-> Str(<<"e">>)])

DestBare == Obj([k \in DestFields |-> Absent])

DestQuoted ==
    Obj([image |-> Str(<<"cdn.example.com", "/x.jpg", "?", "foo=1">>),
         region |-> Null, name |-> Str(<<"a", QUOT, "b">>),
         tagline |-> Str(<<>>), description |-> Str(<<QUOT, "c">>),
         bestTime |-> Absent, highlights |-> Str(<<"h", "h">>),
         experiences |-> Absent])

DestItems == {DestFull, DestBare, DestQuoted, NullItem}

BrochFields == {"image", "destination", "date", "description", "pdf"}

BrochFull ==
    Obj([image |-> Str(<<UnsplashHost, "/b.jpg">>),
         destination |-> Str(<<"p">>), date |-> Str(<<"1">>),
         description |-> Str(<<"d">>), pdf |-> Str(<<"f", ".", "pdf">>)])

BrochBare == Obj([k \in BrochFields |-> Absent])

BrochItems == {BrochFull, BrochBare, NullItem}

\* sequences over S of length at most n
SeqUpTo(S, n) == UNION {[1..k -> S] : k \in 0..n}

\* what response.json() resolves or rejects with: a body that is not JSON,
\* a JSON value that is no array, or an array
Bodies(items) ==
    {[kind |-> "badJson", items |-> <<>>], [kind |-> "nonArray", items |-> <<>>]}
    \cup {[kind |-> "array", items |-> a] : a \in SeqUpTo(items, MaxItems)}

NoBody == [kind |-> "none", items |-> <<>>]

\* ------------------------------------------------------- card grid loader

\* reading property k of item d: a TypeError on null, undefined if missing
Get(d, k) == IF k \in DOMAIN d.f THEN d.f[k] ELSE Absent

\* the destination card template without its || '' defaults
destinationCardNoDefaults(d) ==
    LET image == unsplashUrl(Get(d, "image"), DetailQuery)
        thumb == unsplashUrl(Get(d, "image"), ThumbQuery)
        attr(v) == AttrValue(ToText(v))
        text(v) == ToText(v)
    IN [dataset |->
            [image |-> attr(image),
             region |-> attr(Get(d, "region")),
             name |-> attr(Get(d, "name")),
             tagline |-> attr(Get(d, "tagline")),
             description |-> attr(Get(d, "description")),
             bestTime |-> attr(Get(d, "bestTime")),
             highlights |-> attr(Get(d, "highlights")),
             experiences |-> attr(Get(d, "experiences"))],
        src |-> attr(thumb),
        alt |-> attr(Get(d, "name")),
        regionText |-> text(Get(d, "region")),
        nameText |-> text(Get(d, "name")),
        taglineText |-> text(Get(d, "tagline"))]

\* the element the HTML parser builds from one destination card's markup
\* (loadDestinations, the map callback): the data-* attributes, the img
\* attributes and the three visible texts
destinationCard(d) ==
    LET image == unsplashUrl(Get(d, "image"), DetailQuery)
        thumb == unsplashUrl(Get(d, "image"), ThumbQuery)
        attr(v) == AttrValue(ToText(OrEmpty(v)))
        text(v) == ToText(OrEmpty(v))
    IN [dataset |->
            [image |-> attr(image),
             region |-> attr(Get(d, "region")),
             name |-> attr(Get(d, "name")),
             tagline |-> attr(Get(d, "tagline")),
             description |-> attr(Get(d, "description")),
             bestTime |-> attr(Get(d, "bestTime")),
             highlights |-> attr(Get(d, "highlights")),
             experiences |-> attr(Get(d, "experiences"))],
        src |-> attr(thumb),
        alt |-> attr(Get(d, "name")),
        regionText |-> text(Get(d, "region")),
        nameText |-> text(Get(d, "name")),
        taglineText |-> text(Get(d, "tagline"))]

\* the element built from one brochure card's markup (loadBrochures)
brochureCard(b) ==
    LET image == unsplashUrl(Get(b, "image"), BrochureQuery)
        pdf == IF OrEmpty(Get(b, "pdf")).s # <<>>
               THEN <<"assets/brochures/">> \o ToText(Get(b, "pdf"))
               ELSE <<"#">>
        attr(v) == AttrValue(ToText(OrEmpty(v)))
        text(v) == ToText(OrEmpty(v))
    IN [href |-> AttrValue(pdf),
        src |-> attr(image),
        alt |-> attr(Get(b, "destination")),
        hasDate |-> OrEmpty(Get(b, "date")).s # <<>>,
        dateText |-> text(Get(b, "date")),
        destinationText |-> text(Get(b, "destination")),
        descriptionText |-> text(Get(b, "description"))]

\* a grid container: its cards and, as history, how often its innerHTML
\* was assigned
GridInit == [cards |-> <<>>, writes |-> 0]

\* loadDestinations appending each card to the container as it is built,
\* so that a throw on a later item leaves the earlier cards behind
renderDestinationsPartial(grid, body) ==
    IF body.kind # "array" THEN grid
    ELSE LET n == FirstIndex([i \in DOMAIN body.items |-> body.items[i].kind], "null") - 1
         IN [cards |-> [i \in 1..n |-> destinationCard(body.items[i])],
             writes |-> grid.writes + n]

\* the try block of loadDestinations after the fetch resolved: parse, map,
\* join, assign innerHTML; any throw leaves for the catch
renderDestinations(grid, body) ==
    IF body.kind # "array" \/ \E i \in DOMAIN body.items : body.items[i].kind = "null"
    THEN grid
    ELSE [cards |-> [i \in DOMAIN body.items |-> destinationCard(body.items[i])],
          writes |-> grid.writes + 1]

\* the try block of loadBrochures after the fetch resolved
renderBrochures(grid, body) ==
    IF body.kind # "array" \/ \E i \in DOMAIN body.items : body.items[i].kind = "null"
    THEN grid
    ELSE [cards |-> [i \in DOMAIN body.items |-> brochureCard(body.items[i])],
          writes |-> grid.writes + 1]

\* ---------------------------------------------------- destination modal

\* the modal's fields as authored: empty
NoContent ==
    [image |-> <<>>, alt |-> <<>>, region |-> <<>>, name |-> <<>>,
     tagline |-> <<>>, description |-> <<>>, bestTime |-> <<>>,
     highlights |-> <<>>, experiences |-> <<>>, ctaName |-> <<>>]

\* the overlay as authored: hidden; wired is set by initDestinationModal;
\* present tells whether the page has a #destination-modal element at all
ModalInit ==
    [present |-> TRUE, wired |-> FALSE, hidden |-> TRUE, open |-> FALSE,
     bodyLock |-> FALSE, content |-> NoContent, scrollTop |-> 0,
     timers |-> <<>>]

\* openModal(card): populate from the card's dataset, show, lock, reset the
\* panel's scroll. The reopened flag of a pending timer is history.
openModal(md, card) ==
    LET data == card.dataset
    IN [md EXCEPT
           !.content =
               [image |-> data.image, alt |-> data.name,
                region |-> data.region, name |-> data.name,
                tagline |-> data.tagline, description |-> data.description,
                bestTime |-> data.bestTime, highlights |-> data.highlights,
                experiences |-> data.experiences, ctaName |-> data.name],
           !.hidden = FALSE,
           !.open = TRUE,
           !.bodyLock = TRUE,
           !.scrollTop = 0,
           !.timers = [i \in DOMAIN md.timers |-> [reopened |-> TRUE]]]

\* closeModal() that also empties the modal's fields
closeModalClearing(md) ==
    [md EXCEPT !.open = FALSE, !.bodyLock = FALSE, !.content = NoContent,
               !.timers = Append(md.timers, [reopened |-> FALSE])]

\* closeModal() without document.body.classList.remove('modal-open')
closeModalKeepsLock(md) ==
    [md EXCEPT !.open = FALSE,
               !.timers = Append(md.timers, [reopened |-> FALSE])]

\* closeModal(): unlock at once, schedule the hide timer
closeModal(md) ==
    [md EXCEPT !.open = FALSE, !.bodyLock = FALSE,
               !.timers = Append(md.timers, [reopened |-> FALSE])]

\* the timer callback without its check of the 'open' class
modalHideTimerUnguarded(md) ==
    [md EXCEPT !.timers = Tail(md.timers), !.hidden = TRUE]

\* the callback closeModal() passes to setTimeout, at fire time
modalHideTimer(md) ==
    LET rest == [md EXCEPT !.timers = Tail(md.timers)]
    IN IF ~md.open THEN [rest EXCEPT !.hidden = TRUE] ELSE rest

\* the document keydown listener of initDestinationModal
modalKeydown(md, key) ==
    IF md.wired /\ key = "Escape" /\ md.open THEN closeModal(md) ELSE md

\* initDestinationModal() without its early return
initDestinationModalUnguarded(md, grid) == [md EXCEPT !.wired = TRUE]

\* initDestinationModal(): returns early without the overlay or any card,
\* otherwise registers the listeners
initDestinationModal(md, grid) ==
    IF ~md.present \/ Len(grid.cards) = 0
    THEN md
    ELSE [md EXCEPT !.wired = TRUE]

\* ----------------------------------------------------------- contact form

\* The page has one form, #contact-form, whose submit button is #submit-btn:
\* document.querySelector('form') of initFormValidation and
\* getElementById('contact-form') of initContactForm are the same element.
\* The button's content is its two authored spans (.btn-text, .btn-spinner)
\* or, once textContent was assigned, a single text.
FormInit ==
    [btnDisabled |-> FALSE, btnHidden |-> FALSE,
     btnContent |-> [kind |-> "spans", text |-> "label"],
     btnTextHidden |-> FALSE, btnSpinnerHidden |-> TRUE,
     successHidden |-> TRUE, inputsDisabled |-> FALSE,
     posts |-> 0, timers |-> <<>>, alerts |-> 0, submits |-> 0,
     succeeded |-> FALSE,
     field |-> [value |-> "", valid |-> FALSE, red |-> FALSE, green |-> FALSE]]

\* submitButton.textContent, read: the text of the spans or the single text
textContent(f) == f.btnContent.text

\* the submit listener of initFormValidation: assigning textContent
\* replaces the button's children by one text node
validationSubmit(f) ==
    LET originalText == textContent(f)
    IN [f EXCEPT !.btnContent = [kind |-> "text", text |-> "loading"],
                 !.btnDisabled = TRUE,
                 !.timers = Append(f.timers, originalText)]

\* the callback of the 5 s timer of initFormValidation
validationResetTimer(f) ==
    [f EXCEPT !.btnContent = [kind |-> "text", text |-> Head(f.timers)],
              !.btnDisabled = FALSE,
              !.timers = Tail(f.timers)]

\* the submit listener of initContactForm up to its await: the POST leaves
contactSubmit(f) ==
    [f EXCEPT !.btnDisabled = TRUE, !.btnTextHidden = TRUE,
              !.btnSpinnerHidden = FALSE, !.posts = f.posts + 1,
              !.submits = f.submits + 1]

\* the catch block of initContactForm
contactCatch(f) ==
    [f EXCEPT !.btnSpinnerHidden = TRUE, !.btnTextHidden = FALSE,
              !.btnDisabled = FALSE, !.alerts = f.alerts + 1]

\* initContactForm after the await: outcome is "ok", "notok" or "reject"
contactSettle(f, outcome) ==
    LET g == [f EXCEPT !.posts = f.posts - 1]
    IN IF outcome = "ok"
       THEN [g EXCEPT !.btnHidden = TRUE, !.successHidden = FALSE,
                      !.inputsDisabled = TRUE, !.succeeded = TRUE]
       ELSE contactCatch(g)

\* the blur listener of a field (initFormValidation)
fieldBlur(f) ==
    IF f.field.valid
    THEN [f EXCEPT !.field.red = FALSE, !.field.green = TRUE]
    ELSE IF f.field.value # ""
         THEN [f EXCEPT !.field.red = TRUE, !.field.green = FALSE]
         ELSE f

\* the input listener of a field (initFormValidation), after the edit
fieldInput(f) ==
    IF f.field.valid THEN [f EXCEPT !.field.red = FALSE] ELSE f

\* whether the user can fire a submit event: through the visible submit
\* button, or from a field (implicit submission, which a disabled default
\* button blocks)
CanSubmit(f) == ~f.btnDisabled /\ (~f.btnHidden \/ ~f.inputsDisabled)

\* what the submit button shows
LabelShown(f) ==
    IF f.btnContent.kind = "spans" THEN ~f.btnTextHidden
    ELSE f.btnContent.text = "label"

LoadingShown(f) ==
    IF f.btnContent.kind = "spans" THEN ~f.btnSpinnerHidden
    ELSE f.btnContent.text = "loading"

\* ---------------------------------------------------------------- throttle

\* func wrapped by throttle(func, limit), before any call. inThrottle is
\* the closure's flag (undefined is falsy), due the time its pending
\* timer may fire at (-1: no timer), now the clock. History: calls lists
\* every call of the wrapper (its time, its arguments, whether the flag
\* was set), invoked every call of func (its time, its arguments).
ThrottleInit ==
    [limit |-> 1, inThrottle |-> FALSE, due |-> -1, now |-> 0,
     calls |-> <<>>, invoked |-> <<>>]

\* the function throttle() returns, called with args
throttled(t, args) ==
    LET c == [t EXCEPT !.calls = Append(@, [at |-> t.now, args |-> args,
                                            inThrottle |-> t.inThrottle])]
    IN IF ~t.inThrottle
       THEN [c EXCEPT !.invoked = Append(@, [at |-> t.now, args |-> args]),
                      !.inThrottle = TRUE,
                      !.due = t.now + t.limit]
       ELSE c

\* a timer callback that also runs func with the arguments of a call
\* made while the flag was set
throttleTimerTrailing(t) ==
    LET r == [t EXCEPT !.inThrottle = FALSE, !.due = -1]
        c == t.calls[Len(t.calls)]
    IN IF c.inThrottle
       THEN [r EXCEPT !.invoked = Append(@, [at |-> t.now, args |-> c.args])]
       ELSE r

\* the callback throttle() passes to setTimeout
throttleTimer(t) == [t EXCEPT !.inThrottle = FALSE, !.due = -1]

\* ------------------------------------------------- navbar and scroll offset

\* the page as authored: the height of #navbar, the section[id] elements
\* in document order with offsetTop and offsetHeight, and the ids the
\* a[href^="#"] links of #navbar point at ("c" is the id of no element)
Page ==
    [navbarHeight |-> 50,
     sections |-> << [id |-> "a", top |-> 200, height |-> 200],
                     [id |-> "b", top |-> 400, height |-> 400] >>,
     links |-> {"a", "b", "c"}]

\* the scroll offsets the page is observed at
ScrollOffsets == {0, 100, 101, 250, 700}

\* document.getElementById(id): the index of the section, 0 for null
getElementById(id) ==
    LET hit == {i \in DOMAIN Page.sections : Page.sections[i].id = id}
    IN IF hit = {} THEN 0 ELSE CHOOSE i \in hit : TRUE

\* the page at scroll offset y, before init(): navbar not 'scrolled', no
\* link carries 'text-secondary'. inThrottle is the flag of the throttled
\* scroll listener. anchor, prevented and scrollTo describe the link click
\* handled last: the id its href names, whether preventDefault() was
\* called, and the top passed to window.scrollTo (-1: not called).
ChromeInit(y) ==
    [scrollY |-> y, scrolled |-> FALSE, active |-> {}, inThrottle |-> FALSE,
     anchor |-> "", prevented |-> FALSE, scrollTo |-> -1]

\* handleNavbarScroll()
handleNavbarScroll(c) == [c EXCEPT !.scrolled = (c.scrollY > 100)]

\* the forEach over the sections in updateActiveNavLink: the id of the
\* last section whose span holds scrollPosition, "" if none does
currentSection(scrollPosition) ==
    LET hit == {i \in DOMAIN Page.sections :
                   /\ scrollPosition >= Page.sections[i].top
                   /\ scrollPosition < Page.sections[i].top + Page.sections[i].height}
    IN IF hit = {} THEN ""
       ELSE Page.sections[CHOOSE i \in hit : \A j \in hit : j <= i].id

\* init(), as far as it touches the navbar: handleNavbarScroll() only
initChrome(c) == handleNavbarScroll(c)

\* updateActiveNavLink()
updateActiveNavLink(c) ==
    [c EXCEPT !.active =
        {l \in Page.links :
            l = currentSection(c.scrollY + Page.navbarHeight + 100)}]

\* the body of throttledScrollHandler
scrollHandler(c) == updateActiveNavLink(handleNavbarScroll(c))

\* handleSmoothScroll(e), as far as it touches the event and the scroll
\* position: href is "#" followed by id (fragment) or something else
smoothScroll(c, fragment, id) ==
    IF fragment
    THEN IF getElementById(id) # 0
         THEN [c EXCEPT !.anchor = id, !.prevented = TRUE,
                        !.scrollTo = Page.sections[getElementById(id)].top
                                         - Page.navbarHeight]
         ELSE [c EXCEPT !.anchor = id, !.prevented = TRUE, !.scrollTo = -1]
    ELSE [c EXCEPT !.anchor = id, !.prevented = FALSE, !.scrollTo = -1]

\* --------------------------------------------------------- reveal on scroll

\* the .fade-in-element elements of the page, queried once at load
FadeElements == 1 .. MaxFade

\* the elements before init(): none carries 'visible', none is observed.
\* supported: 'IntersectionObserver' in window. History: reported holds
\* the elements an entry with isIntersecting was delivered for.
RevealInit(supported) ==
    [supported |-> supported, visible |-> {}, observed |-> {}, reported |-> {}]

\* initScrollAnimations()
initScrollAnimations(r) ==
    IF ~r.supported
    THEN [r EXCEPT !.visible = FadeElements]
    ELSE [r EXCEPT !.observed = FadeElements]

\* the observer's callback without observer.unobserve(entry.target)
observerCallbackKeepsObserving(r, entries, intersecting) ==
    [r EXCEPT !.visible = @ \cup intersecting,
              !.reported = @ \cup intersecting]

\* the callback given to IntersectionObserver: entries are the targets of
\* the delivered entries, intersecting those with isIntersecting
observerCallback(r, entries, intersecting) ==
    [r EXCEPT !.visible = @ \cup intersecting,
              !.observed = @ \ intersecting,
              !.reported = @ \cup intersecting]

\* ---------------------------------------------------------------- bootstrap

\* bootstrap() with initDestinationModal() called before the await
bootstrapToAwaitWiringFirst(log) ==
    log \o <<"init", "initDestinationModal", "loadDestinations">>

\* bootstrap() up to its await: init(), then the call of loadDestinations()
bootstrapToAwait(log) == log \o <<"init", "loadDestinations">>

\* bootstrap() after its await: initDestinationModal(), then the call of
\* loadBrochures(), which nothing awaits
bootstrapAfterAwait(log) == log \o <<"initDestinationModal", "loadBrochures">>

\* the steps of one run of bootstrap(), with the settling of the promise of
\* loadDestinations() in between
BootstrapOrder ==
    <<"init", "loadDestinations", "destinationsSettled",
      "initDestinationModal", "loadBrochures">>

\* init() and the rest of bootstrap() up to its await
bootstrapStart ==
    /\ boot' = "awaitDest"
    /\ chrome' = initChrome(chrome)
    /\ reveal' = initScrollAnimations(reveal)
    /\ bootLog' = bootstrapToAwait(bootLog)

\* the listeners of init() are registered
ListenersWired == boot \notin {"pending", "deferred"}

\* ------------------------------------------------------------------- Init

Init ==
    /\ boot = "pending"
    /\ menu = MenuInit
    /\ resizeThrottle = FALSE
    /\ modal = ModalInit
    /\ destGrid = GridInit
    /\ destData = NoBody
    /\ brochPc = "idle"
    /\ brochGrid = GridInit
    /\ brochData = NoBody
    /\ form = FormInit
    /\ last = "none"
    /\ lastCard = 0
    /\ urlIn = Absent
    /\ urlQ = <<>>
    /\ urlOut = Absent
    /\ thr = ThrottleInit
    /\ chrome = ChromeInit(0)
    /\ reveal = RevealInit(TRUE)
    /\ bootLog = <<>>

\* ------------------------------------------------------ bootstrap and loads

\* the last statement of the script: bootstrap() up to its await (init()
\* wires the listeners, loadDestinations() issues its fetch), or, while
\* the document is loading, the registration of the DOMContentLoaded listener
Bootstrap ==
    /\ boot = "pending"
    /\ \E readyState \in {"loading", "interactive", "complete"} :
          IF readyState = "loading"
          THEN /\ boot' = "deferred"
               /\ last' = "deferred"
               /\ UNCHANGED <<chrome, reveal, bootLog>>
          ELSE /\ bootstrapStart
               /\ last' = "bootstrap"
    /\ UNCHANGED <<menu, resizeThrottle, modal, destGrid, destData, brochPc,
                   brochGrid, brochData, form, lastCard, urlIn, urlQ, urlOut,
                   thr>>

\* DOMContentLoaded fires with the listener of the deferred load
\* registered: bootstrap() up to its await
DOMContentLoaded ==
    /\ boot = "deferred"
    /\ bootstrapStart
    /\ last' = "bootstrap"
    /\ UNCHANGED <<menu, resizeThrottle, modal, destGrid, destData, brochPc,
                   brochGrid, brochData, form, lastCard, urlIn, urlQ, urlOut,
                   thr>>

\* bootstrap() after loadDestinations() settled: wire the modal, start
\* loadBrochures() up to its fetch
afterDestinations(md, grid) == initDestinationModal(md, grid)

\* the destinations fetch settles: a response, or a rejection, which the
\* catch of loadDestinations logs before bootstrap() goes on
DestFetchSettle ==
    /\ boot = "awaitDest"
    /\ \E ok \in BOOLEAN :
          IF ok
          THEN /\ boot' = "awaitDestJson"
               /\ last' = "destResponse"
               /\ UNCHANGED <<modal, brochPc, bootLog>>
          ELSE /\ boot' = "done"
               /\ last' = "destReject"
               /\ modal' = afterDestinations(modal, destGrid)
               /\ brochPc' = "awaitFetch"
               /\ bootLog' = bootstrapAfterAwait(
                                 Append(bootLog, "destinationsSettled"))
    /\ UNCHANGED <<menu, resizeThrottle, destGrid, destData, brochGrid,
                   brochData, form, lastCard, urlIn, urlQ, urlOut>>
    /\ UNCHANGED <<thr, chrome, reveal>>

\* response.json() of loadDestinations settles; the grid is rendered or
\* the catch logs; then bootstrap() goes on
DestJsonSettle ==
    /\ boot = "awaitDestJson"
    /\ \E body \in Bodies(DestItems) :
          /\ destGrid' = renderDestinations(destGrid, body)
          /\ destData' = body
    /\ modal' = afterDestinations(modal, destGrid')
    /\ brochPc' = "awaitFetch"
    /\ boot' = "done"
    /\ last' = "destJson"
    /\ bootLog' = bootstrapAfterAwait(Append(bootLog, "destinationsSettled"))
    /\ UNCHANGED <<menu, resizeThrottle, brochGrid, brochData, form, lastCard,
                   urlIn, urlQ, urlOut>>
    /\ UNCHANGED <<thr, chrome, reveal>>

\* the brochures fetch settles
BrochFetchSettle ==
    /\ brochPc = "awaitFetch"
    /\ \E ok \in BOOLEAN :
          /\ brochPc' = IF ok THEN "awaitJson" ELSE "done"
          /\ last' = IF ok THEN "brochResponse" ELSE "brochReject"
    /\ UNCHANGED <<boot, menu, resizeThrottle, modal, destGrid, destData,
                   brochGrid, brochData, form, lastCard, urlIn, urlQ, urlOut>>
    /\ UNCHANGED <<thr, chrome, reveal, bootLog>>

\* response.json() of loadBrochures settles
BrochJsonSettle ==
    /\ brochPc = "awaitJson"
    /\ \E body \in Bodies(BrochItems) :
          /\ brochGrid' = renderBrochures(brochGrid, body)
          /\ brochData' = body
    /\ brochPc' = "done"
    /\ last' = "brochJson"
    /\ UNCHANGED <<boot, menu, resizeThrottle, modal, destGrid, destData,
                   form, lastCard, urlIn, urlQ, urlOut>>
    /\ UNCHANGED <<thr, chrome, reveal, bootLog>>

\* ------------------------------------------------------------ menu events

\* a click on #menu-toggle: its listener, then the document click listener
ToggleClick ==
    /\ ListenersWired
    /\ menu' = documentClick(toggleMobileMenu(menu), FALSE, TRUE)
    /\ Len(menu'.timers) <= MaxMenuTimers
    /\ last' = IF last = "toggleClick" THEN "toggleClickTwice" ELSE "toggleClick"
    /\ UNCHANGED <<boot, resizeThrottle, modal, destGrid, destData, brochPc,
                   brochGrid, brochData, form, lastCard, urlIn, urlQ, urlOut>>
    /\ UNCHANGED <<thr, chrome, reveal, bootLog>>

\* a click on the page outside the panel, the toggle, the cards and the
\* overlay: the document click listener
PageClick ==
    /\ ListenersWired
    /\ menu' = documentClick(menu, FALSE, FALSE)
    /\ Len(menu'.timers) <= MaxMenuTimers
    /\ last' = "pageClick"
    /\ UNCHANGED <<boot, resizeThrottle, modal, destGrid, destData, brochPc,
                   brochGrid, brochData, form, lastCard, urlIn, urlQ, urlOut>>
    /\ UNCHANGED <<thr, chrome, reveal, bootLog>>

\* a click on a link of the panel, which is showing: handleSmoothScroll,
\* then closeMobileMenu, then the document click listener
MenuLinkClick ==
    /\ ListenersWired
    /\ ~menu.hidden
    /\ \E fragment \in BOOLEAN, id \in Page.links :
          /\ menu' = documentClick(
                         closeMobileMenu(
                             handleSmoothScroll(menu, fragment,
                                                getElementById(id) # 0)),
                         TRUE, FALSE)
          /\ chrome' = smoothScroll(chrome, fragment, id)
    /\ Len(menu'.timers) <= MaxMenuTimers
    /\ last' = "menuLinkClick"
    /\ UNCHANGED <<boot, resizeThrottle, modal, destGrid, destData, brochPc,
                   brochGrid, brochData, form, lastCard, urlIn, urlQ, urlOut>>
    /\ UNCHANGED <<thr, reveal, bootLog>>

\* a key pressed with the focus outside the cards: the keydown listeners
\* of the document, the menu's and (once wired) the modal's
DocumentKeydown ==
    /\ ListenersWired
    /\ \E key \in {"Escape", "Tab"} :
          /\ menu' = menuKeydown(menu, key)
          /\ modal' = modalKeydown(modal, key)
          /\ last' = IF key = "Escape" THEN "escape" ELSE "otherKey"
    /\ Len(menu'.timers) <= MaxMenuTimers
    /\ Len(modal'.timers) <= MaxModalTimers
    /\ UNCHANGED <<boot, resizeThrottle, destGrid, destData, brochPc,
                   brochGrid, brochData, form, lastCard, urlIn, urlQ, urlOut>>
    /\ UNCHANGED <<thr, chrome, reveal, bootLog>>

\* a resize event: throttle(..., 200) runs the handler unless in cooldown
Resize ==
    /\ ListenersWired
    /\ \E width \in {767, 768} :
          /\ IF resizeThrottle
             THEN UNCHANGED <<menu, resizeThrottle>>
             ELSE /\ menu' = resizeHandler(menu, width)
                  /\ resizeThrottle' = TRUE
          /\ last' = IF width >= 768 THEN "resizeWide" ELSE "resizeNarrow"
    /\ Len(menu'.timers) <= MaxMenuTimers
    /\ UNCHANGED <<boot, modal, destGrid, destData, brochPc, brochGrid,
                   brochData, form, lastCard, urlIn, urlQ, urlOut>>
    /\ UNCHANGED <<thr, chrome, reveal, bootLog>>

\* the 200 ms timer of the resize throttle fires
ResizeThrottleTimer ==
    /\ resizeThrottle
    /\ resizeThrottle' = FALSE
    /\ last' = "resizeThrottleTimer"
    /\ UNCHANGED <<boot, menu, modal, destGrid, destData, brochPc, brochGrid,
                   brochData, form, lastCard, urlIn, urlQ, urlOut>>
    /\ UNCHANGED <<thr, chrome, reveal, bootLog>>

\* the oldest pending 300 ms timer of closeMobileMenu fires
MenuTimerFire ==
    /\ menu.timers # <<>>
    /\ menu' = menuHideTimer(menu)
    /\ last' = IF Head(menu.timers).reopened THEN "menuTimerStale" ELSE "menuTimer"
    /\ UNCHANGED <<boot, resizeThrottle, modal, destGrid, destData, brochPc,
                   brochGrid, brochData, form, lastCard, urlIn, urlQ, urlOut>>
    /\ UNCHANGED <<thr, chrome, reveal, bootLog>>

\* ----------------------------------------------------------- modal events

\* a click on card i: the card's listener, then the document click listener
CardClick ==
    /\ modal.wired
    /\ \E i \in DOMAIN destGrid.cards :
          /\ modal' = openModal(modal, destGrid.cards[i])
          /\ lastCard' = i
    /\ menu' = documentClick(menu, FALSE, FALSE)
    /\ Len(menu'.timers) <= MaxMenuTimers
    /\ last' = IF modal.open THEN "cardClickOpen" ELSE "cardClick"
    /\ UNCHANGED <<boot, resizeThrottle, destGrid, destData, brochPc,
                   brochGrid, brochData, form, urlIn, urlQ, urlOut>>
    /\ UNCHANGED <<thr, chrome, reveal, bootLog>>

\* Enter or Space pressed on the focused card i: the card's keydown
\* listener; the document's keydown listeners ignore these keys
CardKeydown ==
    /\ modal.wired
    /\ \E i \in DOMAIN destGrid.cards, key \in {"Enter", " "} :
          /\ modal' = modalKeydown(openModal(modal, destGrid.cards[i]), key)
          /\ menu' = menuKeydown(menu, key)
          /\ lastCard' = i
    /\ last' = IF modal.open THEN "cardKeydownOpen" ELSE "cardKeydown"
    /\ UNCHANGED <<boot, resizeThrottle, destGrid, destData, brochPc,
                   brochGrid, brochData, form, urlIn, urlQ, urlOut>>
    /\ UNCHANGED <<thr, chrome, reveal, bootLog>>

\* a click on the backdrop of the showing overlay: closeModal, then the
\* document click listener
BackdropClick ==
    /\ modal.wired
    /\ ~modal.hidden
    /\ modal' = closeModal(modal)
    /\ Len(modal'.timers) <= MaxModalTimers
    /\ menu' = documentClick(menu, FALSE, FALSE)
    /\ Len(menu'.timers) <= MaxMenuTimers
    /\ last' = "backdropClick"
    /\ UNCHANGED <<boot, resizeThrottle, destGrid, destData, brochPc,
                   brochGrid, brochData, form, lastCard, urlIn, urlQ, urlOut>>
    /\ UNCHANGED <<thr, chrome, reveal, bootLog>>

\* a click on #modal-close or #modal-cta-btn of the showing overlay:
\* closeModal; the click reaches the document click listener unless the
\* control lies inside .modal-content, which stops propagation
ModalControlClick ==
    /\ modal.wired
    /\ ~modal.hidden
    /\ modal' = closeModal(modal)
    /\ Len(modal'.timers) <= MaxModalTimers
    /\ \E inContent \in BOOLEAN, control \in {"close", "cta"} :
          /\ menu' = IF inContent THEN menu ELSE documentClick(menu, FALSE, FALSE)
          /\ last' = IF control = "close" THEN "modalCloseClick" ELSE "modalCtaClick"
    /\ Len(menu'.timers) <= MaxMenuTimers
    /\ UNCHANGED <<boot, resizeThrottle, destGrid, destData, brochPc,
                   brochGrid, brochData, form, lastCard, urlIn, urlQ, urlOut>>
    /\ UNCHANGED <<thr, chrome, reveal, bootLog>>

\* the user scrolls the detail panel of the open modal
ModalScroll ==
    /\ modal.open
    /\ modal.scrollTop = 0
    /\ modal' = [modal EXCEPT !.scrollTop = 1]
    /\ last' = "modalScroll"
    /\ UNCHANGED <<boot, menu, resizeThrottle, destGrid, destData, brochPc,
                   brochGrid, brochData, form, lastCard, urlIn, urlQ, urlOut>>
    /\ UNCHANGED <<thr, chrome, reveal, bootLog>>

\* the oldest pending 400 ms timer of closeModal fires
ModalTimerFire ==
    /\ modal.timers # <<>>
    /\ modal' = modalHideTimer(modal)
    /\ last' = IF Head(modal.timers).reopened THEN "modalTimerStale" ELSE "modalTimer"
    /\ UNCHANGED <<boot, menu, resizeThrottle, destGrid, destData, brochPc,
                   brochGrid, brochData, form, lastCard, urlIn, urlQ, urlOut>>
    /\ UNCHANGED <<thr, chrome, reveal, bootLog>>

\* ------------------------------------------------------------ form events

\* a submit event of the form: the listener of initFormValidation, then
\* the listener of initContactForm up to its await
Submit ==
    /\ ListenersWired
    /\ CanSubmit(form)
    /\ form.submits < MaxSubmits
    /\ form' = contactSubmit(validationSubmit(form))
    /\ last' = "submit"
    /\ UNCHANGED <<boot, menu, resizeThrottle, modal, destGrid, destData,
                   brochPc, brochGrid, brochData, lastCard, urlIn, urlQ, urlOut>>
    /\ UNCHANGED <<thr, chrome, reveal, bootLog>>

\* a POST in flight settles: an ok response, another response, a rejection
PostSettle ==
    /\ form.posts > 0
    /\ \E outcome \in {"ok", "notok", "reject"} :
          /\ form' = contactSettle(form, outcome)
          /\ last' = CASE outcome = "ok" -> "postOk"
                        [] outcome = "notok" -> "postNotOk"
                        [] OTHER -> "postReject"
    /\ UNCHANGED <<boot, menu, resizeThrottle, modal, destGrid, destData,
                   brochPc, brochGrid, brochData, lastCard, urlIn, urlQ, urlOut>>
    /\ UNCHANGED <<thr, chrome, reveal, bootLog>>

\* the oldest pending 5 s timer of initFormValidation fires
FormTimerFire ==
    /\ form.timers # <<>>
    /\ form' = validationResetTimer(form)
    /\ last' = "formTimer"
    /\ UNCHANGED <<boot, menu, resizeThrottle, modal, destGrid, destData,
                   brochPc, brochGrid, brochData, lastCard, urlIn, urlQ, urlOut>>
    /\ UNCHANGED <<thr, chrome, reveal, bootLog>>

\* the user edits a field that is not disabled: the new value and its
\* native validity, then the input listener
FieldInput ==
    /\ ListenersWired
    /\ ~form.inputsDisabled
    /\ \E value \in {"", "x"}, valid \in BOOLEAN :
          form' = fieldInput([form EXCEPT !.field.value = value,
                                          !.field.valid = valid])
    /\ last' = "fieldInput"
    /\ UNCHANGED <<boot, menu, resizeThrottle, modal, destGrid, destData,
                   brochPc, brochGrid, brochData, lastCard, urlIn, urlQ, urlOut>>
    /\ UNCHANGED <<thr, chrome, reveal, bootLog>>

\* a field that is not disabled loses the focus: the blur listener
FieldBlur ==
    /\ ListenersWired
    /\ ~form.inputsDisabled
    /\ form' = fieldBlur(form)
    /\ last' = "fieldBlur"
    /\ UNCHANGED <<boot, menu, resizeThrottle, modal, destGrid, destData,
                   brochPc, brochGrid, brochData, lastCard, urlIn, urlQ, urlOut>>
    /\ UNCHANGED <<thr, chrome, reveal, bootLog>>

\* --------------------------------------------------------- specifications

\* the mobile menu under every event that reaches it
NextMenu ==
    \/ Bootstrap
    \/ DOMContentLoaded
    \/ ToggleClick
    \/ PageClick
    \/ MenuLinkClick
    \/ DocumentKeydown
    \/ Resize
    \/ ResizeThrottleTimer
    \/ MenuTimerFire

SpecMenu == Init /\ [][NextMenu]_vars

\* the destinations load and the modal under every event that reaches it
NextModal ==
    \/ Bootstrap
    \/ DOMContentLoaded
    \/ DestFetchSettle
    \/ DestJsonSettle
    \/ CardClick
    \/ CardKeydown
    \/ BackdropClick
    \/ ModalControlClick
    \/ DocumentKeydown
    \/ ModalScroll
    \/ ModalTimerFire

SpecModal == Init /\ [][NextModal]_vars

\* the contact form
NextForm ==
    \/ Bootstrap
    \/ DOMContentLoaded
    \/ FieldInput
    \/ FieldBlur
    \/ Submit
    \/ PostSettle
    \/ FormTimerFire

SpecForm == Init /\ [][NextForm]_vars

\* the two grid loads
NextGrid ==
    \/ Bootstrap
    \/ DOMContentLoaded
    \/ DestFetchSettle
    \/ DestJsonSettle
    \/ BrochFetchSettle
    \/ BrochJsonSettle

SpecGrid == Init /\ [][NextGrid]_vars

\* the image URL helper on its own: every url and querystring, then one call
\* a url is absent, null, empty, or a host followed by what follows it
UrlHosts == {UnsplashHost, "cdn.example.com"}

UrlTokens == {UnsplashHost, "/x.jpg", "?", "foo=1"}

Urls ==
    {Absent, Null, Str(<<>>)}
    \cup {Str(<<h>> \o r) : h \in UrlHosts, r \in SeqUpTo(UrlTokens, MaxUrlLen - 1)}

InitUrl ==
    /\ boot = "pending"
    /\ menu = MenuInit
    /\ resizeThrottle = FALSE
    /\ modal = ModalInit
    /\ destGrid = GridInit
    /\ destData = NoBody
    /\ brochPc = "idle"
    /\ brochGrid = GridInit
    /\ brochData = NoBody
    /\ form = FormInit
    /\ last = "none"
    /\ lastCard = 0
    /\ urlIn \in Urls
    /\ urlQ \in {DetailQuery, ThumbQuery, BrochureQuery}
    /\ urlOut = Absent
    /\ thr = ThrottleInit
    /\ chrome = ChromeInit(0)
    /\ reveal = RevealInit(TRUE)
    /\ bootLog = <<>>

ApplyUnsplashUrl ==
    /\ last = "none"
    /\ urlOut' = unsplashUrl(urlIn, urlQ)
    /\ last' = "unsplashUrl"
    /\ UNCHANGED <<boot, menu, resizeThrottle, modal, destGrid, destData,
                   brochPc, brochGrid, brochData, form, lastCard, urlIn, urlQ>>
    /\ UNCHANGED <<thr, chrome, reveal, bootLog>>

NextUrl == ApplyUnsplashUrl

SpecUrl == InitUrl /\ [][NextUrl]_vars

\* ---------------------------------------------------------- throttle events

\* a function wrapped by throttle() with some interval, before any call
InitThrottle ==
    /\ boot = "pending"
    /\ menu = MenuInit
    /\ resizeThrottle = FALSE
    /\ modal = ModalInit
    /\ destGrid = GridInit
    /\ destData = NoBody
    /\ brochPc = "idle"
    /\ brochGrid = GridInit
    /\ brochData = NoBody
    /\ form = FormInit
    /\ last = "none"
    /\ lastCard = 0
    /\ urlIn = Absent
    /\ urlQ = <<>>
    /\ urlOut = Absent
    /\ \E limit \in 1 .. MaxLimit : thr = [ThrottleInit EXCEPT !.limit = limit]
    /\ chrome = ChromeInit(0)
    /\ reveal = RevealInit(TRUE)
    /\ bootLog = <<>>

\* the wrapper is called; the arguments of the n-th call are n
ThrottledCall ==
    /\ Len(thr.calls) < MaxCalls
    /\ thr' = throttled(thr, Len(thr.calls) + 1)
    /\ last' = "throttledCall"
    /\ UNCHANGED <<boot, menu, resizeThrottle, modal, destGrid, destData,
                   brochPc, brochGrid, brochData, form, lastCard, urlIn, urlQ,
                   urlOut, chrome, reveal, bootLog>>

\* the timer of the wrapper fires, no earlier than limit after it was set
ThrottleTimerFire ==
    /\ thr.due # -1
    /\ thr.now >= thr.due
    /\ thr' = throttleTimer(thr)
    /\ last' = "throttleTimer"
    /\ UNCHANGED <<boot, menu, resizeThrottle, modal, destGrid, destData,
                   brochPc, brochGrid, brochData, form, lastCard, urlIn, urlQ,
                   urlOut, chrome, reveal, bootLog>>

\* time passes
ThrottleTick ==
    /\ thr.now < MaxTime
    /\ thr' = [thr EXCEPT !.now = @ + 1]
    /\ last' = "tick"
    /\ UNCHANGED <<boot, menu, resizeThrottle, modal, destGrid, destData,
                   brochPc, brochGrid, brochData, form, lastCard, urlIn, urlQ,
                   urlOut, chrome, reveal, bootLog>>

NextThrottle ==
    \/ ThrottledCall
    \/ ThrottleTimerFire
    \/ ThrottleTick

SpecThrottle == InitThrottle /\ [][NextThrottle]_vars

\* ------------------------------------------------- scroll and reveal events

\* a scroll event at offset y: throttle(..., 100) runs the handler unless
\* in cooldown
Scroll ==
    /\ ListenersWired
    /\ \E y \in ScrollOffsets :
          LET c == [chrome EXCEPT !.scrollY = y]
          IN IF chrome.inThrottle
             THEN /\ chrome' = c
                  /\ last' = "scrollDropped"
             ELSE /\ chrome' = [scrollHandler(c) EXCEPT !.inThrottle = TRUE]
                  /\ last' = "scrollTick"
    /\ UNCHANGED <<boot, menu, resizeThrottle, modal, destGrid, destData,
                   brochPc, brochGrid, brochData, form, lastCard, urlIn, urlQ,
                   urlOut, thr, reveal, bootLog>>

\* the 100 ms timer of the scroll throttle fires
ScrollThrottleTimer ==
    /\ chrome.inThrottle
    /\ chrome' = [chrome EXCEPT !.inThrottle = FALSE]
    /\ last' = "scrollThrottleTimer"
    /\ UNCHANGED <<boot, menu, resizeThrottle, modal, destGrid, destData,
                   brochPc, brochGrid, brochData, form, lastCard, urlIn, urlQ,
                   urlOut, thr, reveal, bootLog>>

\* the observer delivers entries for some of the observed elements, some
\* of them intersecting
Intersect ==
    /\ \E entries \in SUBSET reveal.observed, intersecting \in SUBSET reveal.observed :
          /\ entries # {}
          /\ intersecting \subseteq entries
          /\ reveal' = observerCallback(reveal, entries, intersecting)
    /\ last' = "intersect"
    /\ UNCHANGED <<boot, menu, resizeThrottle, modal, destGrid, destData,
                   brochPc, brochGrid, brochData, form, lastCard, urlIn, urlQ,
                   urlOut, thr, chrome, bootLog>>

\* the page with or without IntersectionObserver, before the script runs
InitReveal ==
    /\ boot = "pending"
    /\ menu = MenuInit
    /\ resizeThrottle = FALSE
    /\ modal = ModalInit
    /\ destGrid = GridInit
    /\ destData = NoBody
    /\ brochPc = "idle"
    /\ brochGrid = GridInit
    /\ brochData = NoBody
    /\ form = FormInit
    /\ last = "none"
    /\ lastCard = 0
    /\ urlIn = Absent
    /\ urlQ = <<>>
    /\ urlOut = Absent
    /\ thr = ThrottleInit
    /\ chrome = ChromeInit(0)
    /\ \E supported \in BOOLEAN : reveal = RevealInit(supported)
    /\ bootLog = <<>>

\* the fade-in elements under intersection reports and scroll events
NextReveal ==
    \/ Bootstrap
    \/ DOMContentLoaded
    \/ Intersect
    \/ Scroll
    \/ ScrollThrottleTimer

SpecReveal == InitReveal /\ [][NextReveal]_vars


\* a click on an a[href^="#"] link outside the panel and the toggle:
\* handleSmoothScroll, then the document click listener
AnchorClick ==
    /\ ListenersWired
    /\ \E id \in Page.links :
          /\ chrome' = smoothScroll(chrome, TRUE, id)
          /\ menu' = documentClick(
                         handleSmoothScroll(menu, TRUE, getElementById(id) # 0),
                         FALSE, FALSE)
          /\ last' = IF getElementById(id) # 0
                     THEN "anchorClick" ELSE "anchorClickNoTarget"
    /\ Len(menu'.timers) <= MaxMenuTimers
    /\ UNCHANGED <<boot, resizeThrottle, modal, destGrid, destData, brochPc,
                   brochGrid, brochData, form, lastCard, urlIn, urlQ, urlOut,
                   thr, reveal, bootLog>>

\* the page loaded at any scroll offset (a reload restores the offset)
InitChrome ==
    /\ boot = "pending"
    /\ menu = MenuInit
    /\ resizeThrottle = FALSE
    /\ modal = ModalInit
    /\ destGrid = GridInit
    /\ destData = NoBody
    /\ brochPc = "idle"
    /\ brochGrid = GridInit
    /\ brochData = NoBody
    /\ form = FormInit
    /\ last = "none"
    /\ lastCard = 0
    /\ urlIn = Absent
    /\ urlQ = <<>>
    /\ urlOut = Absent
    /\ thr = ThrottleInit
    /\ \E y \in ScrollOffsets : chrome = ChromeInit(y)
    /\ reveal = RevealInit(TRUE)
    /\ bootLog = <<>>

\* the navbar, its links and the menu under scroll events and link clicks
NextChrome ==
    \/ Bootstrap
    \/ DOMContentLoaded
    \/ Scroll
    \/ ScrollThrottleTimer
    \/ AnchorClick
    \/ MenuLinkClick
    \/ ToggleClick
    \/ MenuTimerFire

SpecChrome == InitChrome /\ [][NextChrome]_vars

\* a page with or without the overlay element, before the script runs
InitWiring ==
    /\ boot = "pending"
    /\ menu = MenuInit
    /\ resizeThrottle = FALSE
    /\ \E present \in BOOLEAN : modal = [ModalInit EXCEPT !.present = present]
    /\ destGrid = GridInit
    /\ destData = NoBody
    /\ brochPc = "idle"
    /\ brochGrid = GridInit
    /\ brochData = NoBody
    /\ form = FormInit
    /\ last = "none"
    /\ lastCard = 0
    /\ urlIn = Absent
    /\ urlQ = <<>>
    /\ urlOut = Absent
    /\ thr = ThrottleInit
    /\ chrome = ChromeInit(0)
    /\ reveal = RevealInit(TRUE)
    /\ bootLog = <<>>

\* the modal's events on either page
SpecWiring == InitWiring /\ [][NextModal]_vars

\* the page once bootstrap() is done with two destination cards rendered
\* and the modal wired (a state SpecModal reaches), the brochures fetch
\* pending
LoadedBody == [kind |-> "array", items |-> <<DestFull, DestBare>>]

InitLoaded ==
    /\ boot = "done"
    /\ menu = MenuInit
    /\ resizeThrottle = FALSE
    /\ destGrid = renderDestinations(GridInit, LoadedBody)
    /\ destData = LoadedBody
    /\ modal = afterDestinations(ModalInit, destGrid)
    /\ brochPc = "awaitFetch"
    /\ brochGrid = GridInit
    /\ brochData = NoBody
    /\ form = FormInit
    /\ last = "destJson"
    /\ lastCard = 0
    /\ urlIn = Absent
    /\ urlQ = <<>>
    /\ urlOut = Absent
    /\ thr = ThrottleInit
    /\ chrome = initChrome(ChromeInit(0))
    /\ reveal = initScrollAnimations(RevealInit(TRUE))
    /\ bootLog = BootstrapOrder

\* menu, modal, form and scroll events interleaved on the loaded page
NextFrame ==
    \/ ToggleClick
    \/ MenuTimerFire
    \/ CardClick
    \/ CardKeydown
    \/ BackdropClick
    \/ DocumentKeydown
    \/ ModalTimerFire
    \/ Submit
    \/ Scroll
    \/ ScrollThrottleTimer

SpecFrame == InitLoaded /\ [][NextFrame]_vars

\* menu and modal events interleaved on the loaded page
NextHide ==
    \/ ToggleClick
    \/ PageClick
    \/ DocumentKeydown
    \/ MenuTimerFire
    \/ CardClick
    \/ CardKeydown
    \/ BackdropClick
    \/ ModalControlClick
    \/ ModalTimerFire

\* a callback given to setTimeout is run once its delay has passed
SpecHide ==
    /\ InitLoaded
    /\ [][NextHide]_vars
    /\ WF_vars(MenuTimerFire)
    /\ WF_vars(ModalTimerFire)

\* ----------------------------------------------------------------- claims

\* C1: after every menu operation the three surfaces agree: the panel has
\* class 'open' iff the toggle has class 'active' iff aria-expanded is "true".
C1_MenuSurfacesAgree ==
    /\ menu.open = menu.active
    /\ menu.active = (menu.aria = "true")

\* the menu was re-opened inside the animation window of a close: open on
\* all three surfaces, with that close's timer still pending
C1_ReopenedMidAnimation ==
    /\ menu.open /\ menu.active /\ menu.aria = "true"
    /\ menu.timers # <<>>
    /\ last = "toggleClick"

\* C2: when the hide timer of a close fires after the menu was opened again
\* and not closed since, the panel stays visible and the menu stays open.
C2_StaleMenuTimerKeepsPanel ==
    [][(last' = "menuTimerStale" /\ menu.open)
          => (menu'.open /\ ~menu'.hidden /\ menu'.active)]_vars

\* a stale timer has just fired on the open menu
C2_StaleTimerFiredWhileOpen ==
    last = "menuTimerStale" /\ menu.open /\ ~menu.hidden

\* the three states of the overlay
ModalClosed == modal.hidden /\ ~modal.open

ModalOpen == ~modal.hidden /\ modal.open

ModalClosing == ~modal.hidden /\ ~modal.open

\* C3: the overlay is in exactly one of closed, open, closing; hidden
\* together with 'open' is never reached.
C3_ModalOneState ==
    /\ Cardinality({x \in {<<1, ModalClosed>>, <<2, ModalOpen>>, <<3, ModalClosing>>} : x[2]}) = 1
    /\ ~(modal.hidden /\ modal.open)

\* a timer of an earlier close has just fired on the re-opened overlay
C3_StaleTimerOnOpenModal ==
    last = "modalTimerStale" /\ ModalOpen

\* the modal's fields show the payload data
ShowsPayload(c, data) ==
    /\ c.image = data.image
    /\ c.alt = data.name
    /\ c.region = data.region
    /\ c.name = data.name
    /\ c.tagline = data.tagline
    /\ c.description = data.description
    /\ c.bestTime = data.bestTime
    /\ c.highlights = data.highlights
    /\ c.experiences = data.experiences
    /\ c.ctaName = data.name

Activations == {"cardClick", "cardKeydown", "cardClickOpen", "cardKeydownOpen"}

\* C4: the modal's fields equal the payload of the card activated last,
\* whatever closes and timers followed; right after an activation, also one
\* of the open modal, the overlay is open, not hidden and scroll-locked.
C4_ModalShowsLastCard ==
    /\ lastCard # 0 =>
          ShowsPayload(modal.content, destGrid.cards[lastCard].dataset)
    /\ last \in Activations =>
          modal.open /\ ~modal.hidden /\ modal.bodyLock

\* the second card was activated while the modal was open on another card
C4_ReplacedWhileOpen ==
    /\ last \in {"cardClickOpen", "cardKeydownOpen"}
    /\ lastCard = 2
    /\ destGrid.cards[1] # destGrid.cards[2]
    /\ modal.content.name = destGrid.cards[2].dataset.name
    /\ modal.open

\* C5: after an ok response the submit control is hidden and disabled, the
\* confirmation shows and the fields are disabled, in that state and in
\* every later one, and no further submit is handled.
C5_SuccessIsTerminal ==
    [][/\ form'.succeeded =>
             /\ form'.btnHidden
             /\ form'.btnDisabled
             /\ ~form'.successHidden
             /\ form'.inputsDisabled
       /\ form.succeeded => form'.submits = form.submits]_vars

\* C6: after a POST rejected or answered not-ok, the submit control is
\* enabled and shows its original label, not the loading indicator, an
\* alert was shown, the fields are editable and a submit is possible again.
C6_FailureRestoresIdle ==
    last \in {"postNotOk", "postReject"} =>
        /\ ~form.btnDisabled
        /\ LabelShown(form)
        /\ ~LoadingShown(form)
        /\ form.alerts > 0
        /\ ~form.inputsDisabled
        /\ CanSubmit(form)

\* a load failed: rejected fetch, body that is not JSON, value that is no
\* array, or an array holding null
LoadFailed(body) ==
    \/ body.kind # "array"
    \/ \E i \in DOMAIN body.items : body.items[i].kind = "null"

\* C7: a grid load that fails leaves the container as it was, and the load
\* completes: bootstrap goes on to start the brochures load.
C7_FailedLoadLeavesGrid ==
    /\ (boot = "done" /\ LoadFailed(destData)) => destGrid = GridInit
    /\ (brochPc = "done" /\ LoadFailed(brochData)) => brochGrid = GridInit
    /\ boot = "done" => brochPc # "idle"

\* rendering threw on the second item, after a first item that renders
C7_ThrewOnSecondItem ==
    /\ boot = "done"
    /\ destData.kind = "array"
    /\ Len(destData.items) = 2
    /\ destData.items[1] = DestFull
    /\ destData.items[2] = NullItem
    /\ destGrid = GridInit

\* what a field value must show as: its string, or the empty string
Shown(v) == IF v.t = "str" THEN v.s ELSE <<>>

UndefinedText == <<"u", "n", "d", "e", "f", "i", "n", "e", "d">>

NullText == <<"n", "u", "l", "l">>

TextFields ==
    {"region", "name", "tagline", "description", "bestTime", "highlights",
     "experiences"}

\* C8: an array of n records renders n cards, the i-th from the i-th record;
\* a field the record lacks is the empty string in the visible markup and
\* in the data attributes, never the text "undefined" or "null".
C8_GridRendersInOrder ==
    /\ (boot = "done" /\ ~LoadFailed(destData)) =>
          /\ Len(destGrid.cards) = Len(destData.items)
          /\ \A i \in DOMAIN destData.items :
                LET d == destData.items[i]
                    card == destGrid.cards[i]
                IN /\ card.regionText = Shown(Get(d, "region"))
                   /\ card.nameText = Shown(Get(d, "name"))
                   /\ card.taglineText = Shown(Get(d, "tagline"))
                   /\ \A k \in DestFields :
                         /\ Get(d, k).t # "str" => card.dataset[k] = <<>>
                         /\ card.dataset[k] \notin {UndefinedText, NullText}
                   /\ Get(d, "image").t # "str" => card.src = <<>>
                   /\ Get(d, "name").t # "str" => card.alt = <<>>
    /\ (brochPc = "done" /\ ~LoadFailed(brochData)) =>
          /\ Len(brochGrid.cards) = Len(brochData.items)
          /\ \A i \in DOMAIN brochData.items :
                LET b == brochData.items[i]
                    card == brochGrid.cards[i]
                IN /\ card.destinationText = Shown(Get(b, "destination"))
                   /\ card.descriptionText = Shown(Get(b, "description"))
                   /\ card.hasDate = (Shown(Get(b, "date")) # <<>>)
                   /\ card.hasDate => card.dateText = Shown(Get(b, "date"))
                   /\ Get(b, "image").t # "str" => card.src = <<>>
                   /\ Get(b, "destination").t # "str" => card.alt = <<>>

\* a two-item array whose second item lacks every field was rendered
C8_TwoCardsOneBare ==
    /\ destData.kind = "array"
    /\ destData.items = <<DestFull, DestBare>>
    /\ Len(destGrid.cards) = 2
    /\ destGrid.cards[1].nameText = <<"n">>
    /\ destGrid.cards[2].nameText = <<>>
    /\ destGrid.cards[2].dataset.description = <<>>

\* C9: right after the card rendered from a record is activated, every text
\* field of the modal equals the record's string, or the empty string if
\* the record lacks the field, and the name is echoed in the call to action.
C9_RecordReachesModal ==
    last \in Activations =>
        LET d == destData.items[lastCard]
        IN /\ \A k \in TextFields : modal.content[k] = Shown(Get(d, k))
           /\ modal.content.ctaName = Shown(Get(d, "name"))

\* the url names the recognized host: its first token is that host
PointsAtUnsplash(u) == u.t = "str" /\ u.s # <<>> /\ u.s[1] = UnsplashHost

\* C10: a url at the recognized host is cut at its first '?' and given the
\* directive; any other url, an empty or an absent one, is returned as is.
C10_UrlNormalizedByHost ==
    last = "unsplashUrl" =>
        IF PointsAtUnsplash(urlIn)
        THEN urlOut = Str(SubSeq(urlIn.s, 1, FirstIndex(urlIn.s, "?") - 1)
                          \o <<"?">> \o urlQ)
        ELSE urlOut = urlIn

\* the calls of the wrapper made with the flag clear, as invocations
RECURSIVE CallsOutsideCooldown(_)
CallsOutsideCooldown(calls) ==
    IF calls = <<>> THEN <<>>
    ELSE LET c == Head(calls)
         IN (IF c.inThrottle THEN <<>> ELSE <<[at |-> c.at, args |-> c.args]>>)
                \o CallsOutsideCooldown(Tail(calls))

\* C11: whatever the calls of a throttled function, two invocations of the
\* original are at least one interval apart; the invocations are exactly the
\* calls made outside the cooldown, each at the time of its call and with
\* its arguments; so a call made inside the cooldown is never invoked.
C11_ThrottleSpacesInvocations ==
    /\ \A i \in 1 .. Len(thr.invoked) - 1 :
          thr.invoked[i + 1].at - thr.invoked[i].at >= thr.limit
    /\ thr.invoked = CallsOutsideCooldown(thr.calls)

\* a call was dropped inside the cooldown, the cooldown ended, and a later
\* call was invoked
C11_DroppedThenInvokedAgain ==
    /\ Len(thr.invoked) >= 2
    /\ \E i \in DOMAIN thr.calls :
          /\ thr.calls[i].inThrottle
          /\ i < Len(thr.calls)
          /\ ~thr.calls[Len(thr.calls)].inThrottle
    /\ ~thr.inThrottle

IsPrefix(a, b) == Len(a) <= Len(b) /\ a = SubSeq(b, 1, Len(a))

\* C12: bootstrap runs once and in order: init() wires the listeners before
\* the destinations fetch is issued, the modal is wired only once the
\* destinations load has settled, and the brochures load starts after the
\* modal wiring, however the destinations load ended; bootstrap() is done
\* without the brochures load having finished.
C12_BootstrapInOrder ==
    /\ IsPrefix(bootLog, BootstrapOrder)
    /\ ListenersWired <=> Len(bootLog) >= 1
    /\ boot \in {"awaitDest", "awaitDestJson"} <=> Len(bootLog) = 2
    /\ boot = "done" <=> bootLog = BootstrapOrder
    /\ modal.wired => boot = "done"
    /\ brochPc # "idle" <=> boot = "done"

\* the destinations fetch was rejected; bootstrap() has gone through the
\* modal wiring and started the brochures load, whose fetch is pending
C12_BrochuresStartedAfterFailure ==
    /\ last = "destReject"
    /\ boot = "done"
    /\ bootLog = BootstrapOrder
    /\ brochPc = "awaitFetch"

\* C13: an element an intersection was reported for is visible and not
\* observed, in the state after the report and in every later one, whatever
\* intersections and scroll events follow; without IntersectionObserver
\* every fade-in element is visible once init() has run.
C13_RevealOnceAndForGood ==
    /\ reveal.reported \subseteq reveal.visible
    /\ reveal.reported \cap reveal.observed = {}
    /\ (ListenersWired /\ ~reveal.supported) => reveal.visible = FadeElements

\* an element was revealed, the page was scrolled since, and other elements
\* are still observed
C13_RevealedThenScrolled ==
    /\ reveal.reported # {}
    /\ reveal.observed # {}
    /\ last = "scrollTick"

\* the menu once every pending hide timer has fired
RECURSIVE AllTimersFired(_)
AllTimersFired(m) ==
    IF m.timers = <<>> THEN m ELSE AllTimersFired(menuHideTimer(m))

\* C14: from any state of the menu, two toggle() calls with no timer firing
\* in between leave the menu open iff it was open, with panel class, toggle
\* class and aria-expanded agreeing; and whenever no hide timer is pending
\* (now, or after the two calls once their timers have fired) the panel is
\* hidden iff the menu is closed.
C14_DoubleToggleReturns ==
    LET twice == toggleMobileMenu(toggleMobileMenu(menu))
        settled == AllTimersFired(twice)
    IN /\ twice.open = menu.open
       /\ twice.open = twice.active
       /\ twice.active = (twice.aria = "true")
       /\ settled.open = twice.open
       /\ settled.hidden = ~settled.open
       /\ menu.timers = <<>> => menu.hidden = ~menu.open

\* the toggle was clicked twice in a row on an open menu: closed and
\* re-opened with the close's timer still pending
C14_ClosedAndReopenedInWindow ==
    /\ last = "toggleClickTwice"
    /\ menu.open
    /\ menu.timers # <<>>

\* C15: the hide timer of a close() adds 'hidden' to the panel only if the
\* menu was not re-opened between that close() and the firing: a timer
\* whose close() was followed by an open leaves a showing panel showing,
\* whatever the menu's state when it fires.
C15_ReopenedTimerNeverHides ==
    [][(last' = "menuTimerStale" /\ ~menu.hidden) => ~menu'.hidden]_vars

\* C16: a step that closes the modal removes 'open' and the body scroll
\* lock together; a hide timer firing on an open modal changes nothing but
\* the timer queue; and a hide timer whose close() was followed by an open
\* never hides the overlay, whatever the modal's state when it fires.
C16_ReopenedModalTimerNeverHides ==
    [][/\ (modal.open /\ ~modal'.open) => ~modal'.bodyLock
       /\ (last' \in {"modalTimer", "modalTimerStale"} /\ modal.open)
             => modal' = [modal EXCEPT !.timers = Tail(modal.timers)]
       /\ (last' = "modalTimerStale" /\ ~modal.hidden) => ~modal'.hidden]_vars

\* C17: while a POST of the form is in flight the submit control is
\* disabled, and never more than one POST is in flight.
C17_OnePostInFlight ==
    /\ form.posts > 0 => form.btnDisabled
    /\ form.posts <= 1

\* C18: with the menu open, a click outside the panel and the toggle, an
\* Escape key press, the activation of a link of the panel, or a resize
\* event at a width of 768 px or more leaves the menu closed.
C18_AutoCloseTriggersClose ==
    [][(menu.open /\ last' \in {"pageClick", "escape", "menuLinkClick",
                                "resizeWide"})
          => ~menu'.open]_vars

\* C19: after a click on an in-page link whose fragment names no element,
\* the default navigation was not prevented, no scroll was started and
\* handleSmoothScroll left the menu as it was; after a click on one whose
\* target exists, the default was prevented, the scroll goes to the
\* target's offsetTop minus the navbar's height, and the menu is closed.
C19_UnresolvedAnchorFallsThrough ==
    /\ handleSmoothScroll(menu, TRUE, FALSE) = menu
    /\ last = "anchorClickNoTarget" =>
          /\ ~chrome.prevented
          /\ chrome.scrollTo = -1
    /\ last = "anchorClick" =>
          /\ chrome.prevented
          /\ chrome.scrollTo = Page.sections[getElementById(chrome.anchor)].top
                                   - Page.navbarHeight
          /\ ~menu.open

\* C20: right after init() and after every scroll event the throttle let
\* through, the navbar is 'scrolled' iff the scroll offset exceeds 100, and
\* a navbar link is active iff it points at a section whose span
\* [top, top + height) holds scroll offset + navbar height + 100.
C20_ChromeMatchesOffset ==
    last \in {"bootstrap", "scrollTick"} =>
        /\ chrome.scrolled = (chrome.scrollY > 100)
        /\ \A l \in Page.links :
              l \in chrome.active <=>
                 \E i \in DOMAIN Page.sections :
                    LET sec == Page.sections[i]
                        pos == chrome.scrollY + Page.navbarHeight + 100
                    IN /\ sec.id = l
                       /\ pos >= sec.top
                       /\ pos < sec.top + sec.height

\* C21: once bootstrap() is done on a page without the overlay, or with no
\* destination card rendered, no modal listener is registered, the
\* brochures load has been started, and the modal is closed: not open, not
\* showing, body not locked, whatever events follow.
C21_UnwiredModalStaysClosed ==
    (boot = "done" /\ (~modal.present \/ Len(destGrid.cards) = 0)) =>
        /\ ~modal.wired
        /\ brochPc # "idle"
        /\ ~modal.open
        /\ modal.hidden
        /\ ~modal.bodyLock
        /\ modal.timers = <<>>

\* on a page without the overlay the cards were rendered, bootstrap() is
\* done, and Escape was pressed since
C21_EscapeWithoutOverlay ==
    /\ ~modal.present
    /\ Len(destGrid.cards) > 0
    /\ boot = "done"
    /\ last = "escape"

\* the menu's three surfaces and the panel's 'hidden' class
MenuSurfaces(m) == <<m.open, m.active, m.aria, m.hidden>>

\* the overlay's 'open' and 'hidden' classes, its content, the body lock
OverlaySurfaces(md) == <<md.open, md.hidden, md.content, md.bodyLock>>

\* C22: a step that opens the modal from the keyboard or fires a modal hide
\* timer leaves the menu's surfaces and the panel's 'hidden' class as they
\* were; a click that opens or closes the modal changes them only as the
\* menu's own outside-click listener does; and a toggle of the menu, a menu
\* hide timer, a form submission or a scroll event leaves the overlay's
\* classes, its content and the body scroll lock as they were.
C22_EachOwnsItsSurfaces ==
    [][/\ last' \in {"cardKeydown", "cardKeydownOpen", "modalTimer",
                     "modalTimerStale"}
             => MenuSurfaces(menu') = MenuSurfaces(menu)
       /\ last' \in {"cardClick", "cardClickOpen", "backdropClick"}
             => MenuSurfaces(menu')
                   = MenuSurfaces(documentClick(menu, FALSE, FALSE))
       /\ last' \in {"toggleClick", "toggleClickTwice", "menuTimer",
                     "menuTimerStale", "submit", "scrollTick",
                     "scrollDropped", "scrollThrottleTimer"}
             => OverlaySurfaces(modal') = OverlaySurfaces(modal)]_vars

\* the modal was opened from the keyboard while the menu was open with a
\* hide timer of an earlier close pending
C22_ModalOpenedOverOpenMenu ==
    /\ last = "cardKeydown"
    /\ modal.open
    /\ menu.open
    /\ menu.timers # <<>>

\* C23: in every state the body carries 'modal-open' iff the overlay
\* carries 'open', however card activations, clicks on the close control,
\* the backdrop and the call to action, Escape presses and hide timers
\* interleave.
C23_ScrollLockTracksModal == modal.bodyLock = modal.open

\* the call to action closed a modal that had been re-opened inside the
\* window of an earlier close: unlocked, two hide timers pending
C23_ClosedAgainByCallToAction ==
    /\ last = "modalCtaClick"
    /\ ~modal.open
    /\ ~modal.bodyLock
    /\ Len(modal.timers) = 2

\* C24: with pending timers firing eventually, a closed menu panel that is
\* still showing gets hidden unless the menu is opened again, and so does a
\* closed overlay; once hidden, each stays hidden until it is opened.
C24_ClosedGetsHidden ==
    /\ (~menu.open /\ ~menu.hidden) ~> (menu.hidden \/ menu.open)
    /\ (~modal.open /\ ~modal.hidden) ~> (modal.hidden \/ modal.open)
    /\ [][/\ (menu.hidden /\ ~menu'.open) => menu'.hidden
          /\ (modal.hidden /\ ~modal'.open) => modal'.hidden]_vars

\* after close, open, close the timer of the first close has hidden the
\* closed panel while the timer of the second is pending
C24_HiddenAfterEarlierCloses ==
    /\ last = "menuTimerStale"
    /\ ~menu.open
    /\ menu.hidden
    /\ menu.timers # <<>>

====
